---- MODULE Spec2Model ----
(***************************************************************************)
(* src/src/common/aio.py: the shutdown registry (AtExit), the supervised   *)
(* task wrapper (wrap / task / ref) and the bootstrap (init), run on the   *)
(* single-threaded cooperative scheduler that init() creates               *)
(* (uvloop.new_event_loop).                                                *)
(*                                                                         *)
(* The scheduler is modelled by its ready queue.  Every entry of `ready`   *)
(* is one callback; running a callback is one atomic step that runs the    *)
(* coroutine to its next suspension point.  Callbacks run in batches: the  *)
(* entries queued when a batch starts run in that batch, and loop.stop()   *)
(* queues a callback whose effect is seen when the batch that ran it ends. *)
(***************************************************************************)
EXTENDS Integers, Sequences, FiniteSets, TLC

\* Bound of the model: the shutdown actions registered in one execution.
MaxActions == 2

Sup == {"t1", "t2"}                 \* tasks scheduled with aio.task()
Drainers == Sup \cup {"fin"}        \* "fin": the atexit.run() of init()'s finally
Procs == Sup \cup {"main", "fin"}   \* "main": the entry unit given to init()

\* What a registered callback does when AtExit.run() calls it:
\*   "sync"  returns at once              "async" awaits once, then returns
\*   "raise" raises an Exception          "base"  raises a BaseException that
\*                                                is no Exception (CancelledError)
Kinds == {"sync", "async", "raise", "base"}

\*   "rerun" awaits atexit.run(), the shutdown it is itself a part of
KindsReenter == Kinds \cup {"rerun"}

Users == {"a", "b", "c"}    \* the tasks that share one aio.Lock

VARIABLES
    mainThread,     \* threading.current_thread() is threading.main_thread()
    initpc,         \* where init() is: "run1", "run2", "done"
    exc,            \* the exception in flight in init(): "none", "entry", "rt", "kbd", "sysexit"
    outcome,        \* how init() was left: "none", "returned", "exit1", "reraised", "raised_other", "interrupt"
    ready,          \* the loop's queue of callbacks
    batch,          \* callbacks left in the running batch (0: between batches)
    stopping,       \* the loop was told to stop
    cur,            \* the coroutine whose callback is running ("none" between callbacks)
    pc,             \* each task's position
    cancelReq,      \* Task.cancel() was called on the task
    tasks,          \* AtExit._tasks
    kinds,          \* kinds[a]: what registered action a does
    executed,       \* the actions called by AtExit.run(), in call order
    lateReg,        \* an action was registered after a drain had begun
    locked,         \* AtExit._lock._locked
    waiters,        \* AtExit._lock._waiters, as the tasks that wait
    waitCancelled,  \* waiters whose future is cancelled
    sigint,         \* the SIGINT disposition: "default" or "ignored"
    loop_stopped,   \* _loop_stopped
    flagSets,       \* executions of the assignment `_loop_stopped = True`
    bg_tasks,       \* _bg_tasks
    hooks,          \* hooks[t]: calls of sys.excepthook with t's error
    errlog,         \* who called log.error
    failed,         \* supervised tasks whose body raised an Exception
    pendingAtFail,  \* pendingAtFail[t]: the actions in _tasks when t failed
    drainReturned,  \* drainers whose atexit.run() returned normally
    propagated,     \* actions whose error left atexit.run()
    debugArg,       \* init()'s debug argument: "none", "true", "false"
    debugging,      \* _debugging
    loopDebug,      \* loop.get_debug() of the new loop
    instrumented,   \* the debug instrumentation: "unset", "on", "off"
    dphase,         \* "off", "imported", "running" (the loop runs), "finished"
    monitor,        \* HandleSIGUSR2.monitor: "unset" or the state of the task
    monCancelReq,   \* monitor.cancel() was called on the pending task
    orphans,        \* pending do_monitor tasks that self.monitor no longer names
    signals,        \* SIGUSR2 signals handled
    handlerErrors,  \* exceptions raised by handle_sigusr2
    dumps,          \* stack dumps written
    held,           \* Lock._locked of the one aio.Lock the users share
    owners,         \* the users whose acquire() returned True and who did not release
    lwaiters,       \* Lock._waiters, as the users whose future waits
    lfut,           \* lfut[u]: the waiter future of u: "none", "pending", "result", "cancelled"
    upc,            \* upc[u]: "idle", "holding", "bwait", "nbwait", "nbcancel"
    uret,           \* uret[u]: what u's last acquire() returned, "none" while it runs
    inner,          \* inner[u]: the task wait_for made of super().acquire()
    mustCancel,     \* tasks to be cancelled at their next step
    wfut,           \* wfut[u]: wait_for's waiter future
    timers,         \* users whose wait_for timeout is not yet due
    lready,         \* the loop's queue of callbacks of the users
    ncalls,         \* calls of Lock.acquire
    lastCall,       \* the last call of Lock.acquire: who, and wait
    lastVia         \* how the acquire() that ended last ended: "fast", "handoff",
                    \* "refused", "inner", "timeout", "cancelled", "raised"

vars == <<mainThread, initpc, exc, outcome, ready, batch, stopping, cur, pc,
          cancelReq, tasks, kinds, executed, lateReg, locked, waiters,
          waitCancelled, sigint, loop_stopped, flagSets, bg_tasks, hooks,
          errlog, failed, pendingAtFail, drainReturned, propagated,
          debugArg, debugging, loopDebug, instrumented, dphase, monitor,
          monCancelReq, orphans, signals, handlerErrors, dumps,
          held, owners, lwaiters, lfut, upc, uret, inner, mustCancel, wfut,
          timers, lready, ncalls, lastCall, lastVia>>

aioLockVars == <<held, owners, lwaiters, lfut, upc, uret, inner, mustCancel, wfut,
                 timers, lready, ncalls, lastCall, lastVia>>

debugVars == <<debugArg, debugging, loopDebug, instrumented>>
monVars == <<monitor, monCancelReq, orphans, signals, handlerErrors, dumps>>
diagVars == <<debugVars, dphase, monVars>>

\* What no step of init()'s loop and of the supervised tasks changes: the thread
\* init() runs on, the diagnostics, and the aio.Lock objects.
fixedVars == <<mainThread, diagVars, aioLockVars>>

initVars == <<fixedVars, initpc, exc, outcome>>
loopVars == <<ready, batch, stopping, cur>>
regVars == <<tasks, kinds, executed, lateReg>>
lockVars == <<locked, waiters, waitCancelled>>
supVars == <<loop_stopped, flagSets, hooks, failed, pendingAtFail>>
histVars == <<drainReturned, propagated>>

Range(s) == {s[i] : i \in 1..Len(s)}

Done == {"done_ok", "done_cancelled", "done_exc"}

\* --------------------------------------------------------------- the loop

InReady(rdy, t) == \E i \in 1..Len(rdy) : rdy[i] = <<"step", t>>

CurBatch == IF batch = 0 THEN Len(ready) ELSE batch

LoopRunning == initpc \in {"run1", "run2"}

\* The loop can run the callback at the head of the queue.
CanRun == /\ LoopRunning
          /\ cur = "none"
          /\ ready # <<>>
          /\ ~(batch = 0 /\ stopping)

InitAtExit ==
        /\ mainThread \in BOOLEAN
        /\ initpc = "run1"
        /\ exc = "none"
        /\ outcome = "none"
        /\ ready = << <<"step", "main">> >>
        /\ batch = 0
        /\ stopping = FALSE
        /\ cur = "none"
        /\ pc = [p \in Procs |-> IF p = "main" THEN "start" ELSE "unspawned"]
        /\ cancelReq = [p \in Procs |-> FALSE]
        /\ tasks = <<>>
        /\ kinds = <<>>
        /\ executed = <<>>
        /\ lateReg = FALSE
        /\ locked = FALSE
        /\ waiters = <<>>
        /\ waitCancelled = {}
        /\ sigint = "default"
        /\ loop_stopped = FALSE
        /\ flagSets = 0
        /\ bg_tasks = {}
        /\ hooks = [t \in Sup |-> 0]
        /\ errlog = {}
        /\ failed = {}
        /\ pendingAtFail = [t \in Sup |-> {}]
        /\ drainReturned = {}
        /\ propagated = {}

\* The diagnostics left out: no debug setup, no SIGUSR2.
DiagOff == /\ debugArg = "none" /\ debugging = FALSE /\ loopDebug = FALSE
           /\ instrumented = "unset"
           /\ dphase = "off"
           /\ monitor = "unset" /\ monCancelReq = FALSE /\ orphans = 0
           /\ signals = 0 /\ handlerErrors = 0 /\ dumps = 0

\* The aio.Lock of the users, free and unused.
LockInit ==
    /\ held = FALSE
    /\ owners = {}
    /\ lwaiters = <<>>
    /\ lfut = [u \in Users |-> "none"]
    /\ upc = [u \in Users |-> "idle"]
    /\ uret = [u \in Users |-> "none"]
    /\ inner = [u \in Users |-> "none"]
    /\ mustCancel = {}
    /\ wfut = [u \in Users |-> "none"]
    /\ timers = {}
    /\ lready = <<>>
    /\ ncalls = 0
    /\ lastCall = [who |-> "none", wait |-> TRUE]
    /\ lastVia = "none"

Init == InitAtExit /\ DiagOff /\ LockInit

\* ------------------------------------------------ AtExit: the registry

Last(s) == s[Len(s)]

\* One log.error line: who wrote it (a task, "init" or "action") and, for a
\* shutdown action, which one.
LogEntry(who, a) == [who |-> who, act |-> a]

\* A registry drained first-in first-out.
PopFirst(ts) == 1

\* list.pop(): the index of the entry that `self._tasks.pop()` takes.
PopIndex(ts) == Len(ts)

\* An entry that is awaited stays in the list while it is awaited.
RemoveUnlessAwaited(ts, i) ==
    IF kinds[ts[i]] = "async" THEN ts
    ELSE SubSeq(ts, 1, i - 1) \o SubSeq(ts, i + 1, Len(ts))

\* list.pop(): the list that `self._tasks.pop()` leaves.
RemoveAt(ts, i) == SubSeq(ts, 1, i - 1) \o SubSeq(ts, i + 1, Len(ts))

\* `except Exception`: the handler of AtExit.run() catches what an action raised.
Caught(k) == k = "raise"

\* A run() that calls the registered actions and leaves them registered.
DrainKeeps(ts, ex, el) ==
    [tasks |-> ts, executed |-> ex \o [i \in 1..Len(ts) |-> ts[Len(ts) + 1 - i]],
     errlog |-> el, how |-> "empty"]

\* The while loop of AtExit.run(), from the registry ts up to the next
\* suspension: pop, call, log a caught error, go on.  `how` tells why it ended:
\* "empty" the registry is drained, "await" the action called last is awaited,
\* "base" the action called last raised what the handler does not catch,
\* "reenter" the action called last awaits run(), which waits at
\* `async with self._lock` for the lock that this drain holds.
RECURSIVE DrainFrom(_, _, _)
DrainFrom(ts, ex, el) ==
    IF ts = <<>>
    THEN [tasks |-> ts, executed |-> ex, errlog |-> el, how |-> "empty"]
    ELSE LET i == PopIndex(ts)
             a == ts[i]
             rest == RemoveAt(ts, i)
             ex2 == Append(ex, a)
         IN  CASE kinds[a] = "sync" -> DrainFrom(rest, ex2, el)
               [] kinds[a] = "async" ->
                    [tasks |-> rest, executed |-> ex2, errlog |-> el, how |-> "await"]
               [] kinds[a] = "rerun" ->
                    [tasks |-> rest, executed |-> ex2, errlog |-> el, how |-> "reenter"]
               [] Caught(kinds[a]) ->
                    DrainFrom(rest, ex2, el \cup {LogEntry("action", a)})
               [] OTHER ->
                    [tasks |-> rest, executed |-> ex2, errlog |-> el, how |-> "base"]

\* asyncio.Lock._wake_up_first: the wakeup queued for the first waiter, unless
\* its future is done already (woken or cancelled: its callback is in rdy).
WakeFirst(ws, rdy) ==
    IF ws # <<>> /\ ~InReady(rdy, Head(ws))
    THEN << <<"step", Head(ws)>> >>
    ELSE <<>>

\* A lock that is taken whether it is held or not.
CanAcquireAlways == TRUE

\* asyncio.Lock.acquire: the lock is taken without waiting.
CanAcquire == ~locked /\ \A w \in Range(waiters) : w \in waitCancelled

\* The callbacks a task's completion queues: ref()'s _bg_tasks.discard for a
\* supervised task, run_until_complete's stop for the future it waits for.
DoneCb(t) ==
    IF t \in Sup THEN << <<"discard", t>> >>
    ELSE IF t = "fin" \/ initpc = "run1" THEN << <<"rucb", t>> >>
    ELSE <<>>

\* A callback of task d ends at newpc having queued `entries`; it touched
\* neither the registry nor the lock.
Quiet(d, newpc, entries, el) ==
    /\ pc' = [pc EXCEPT ![d] = newpc]
    /\ ready' = Tail(ready) \o entries
    /\ batch' = CurBatch - 1
    /\ errlog' = el
    /\ UNCHANGED <<tasks, executed, locked, waiters, waitCancelled,
                   loop_stopped, flagSets, drainReturned, propagated>>

\* A flag that every caller of run() sets.
FlagSetByAll(d) == TRUE

\* wrap.run_func after `await atexit.run()` returned: set the flag, stop the
\* loop, sleep(0).  The run() of init()'s finally block sets no flag.
FlagSetBy(d) == d \in Sup

\* AtExit.run() from the moment d owns the lock (ws, wc: the waiters without
\* d), up to d's next suspension.
Drain(d, ws, wc, el) ==
    LET r == DrainFrom(tasks, executed, el)
        rel == WakeFirst(ws, Tail(ready))
    IN  /\ tasks' = r.tasks
        /\ executed' = r.executed
        /\ errlog' = r.errlog
        /\ waiters' = ws
        /\ waitCancelled' = wc
        /\ batch' = CurBatch - 1
        /\ \/ /\ r.how \in {"await", "reenter"}
              /\ locked' = TRUE
              /\ pc' = [pc EXCEPT ![d] = IF r.how = "await" THEN "inaction"
                                                          ELSE "reentered"]
              /\ ready' = Tail(ready)
              /\ UNCHANGED <<loop_stopped, flagSets, drainReturned, propagated>>
           \/ /\ r.how = "base"
              /\ locked' = FALSE
              /\ pc' = [pc EXCEPT ![d] = "done_cancelled"]
              /\ ready' = Tail(ready) \o rel \o DoneCb(d)
              /\ propagated' = propagated \cup {Last(r.executed)}
              /\ UNCHANGED <<loop_stopped, flagSets, drainReturned>>
           \/ /\ r.how = "empty"
              /\ locked' = FALSE
              /\ drainReturned' = drainReturned \cup {d}
              /\ UNCHANGED propagated
              /\ IF FlagSetBy(d)
                 THEN /\ loop_stopped' = TRUE
                      /\ flagSets' = flagSets + 1
                      /\ pc' = [pc EXCEPT ![d] = "yielded"]
                      /\ ready' = Tail(ready) \o rel
                                    \o << <<"stop", "loop">>, <<"step", d>> >>
                 ELSE /\ pc' = [pc EXCEPT ![d] = "done_ok"]
                      /\ ready' = Tail(ready) \o rel \o DoneCb(d)
                      /\ UNCHANGED <<loop_stopped, flagSets>>

\* signal.signal(SIGINT, SIG_IGN) raises ValueError off the main thread.
SignalAllowed == mainThread

\* A run() that leaves the SIGINT disposition as it finds it.
SigintLeft(old) == old

\* `signal.signal(signal.SIGINT, signal.SIG_IGN)`: the disposition it sets.
SigintInRun(old) == "ignored"

\* AtExit.run() from its first line, called by d.
EnterRun(d, el) ==
    IF ~SignalAllowed
    THEN /\ Quiet(d, "done_exc", DoneCb(d), el)
         /\ UNCHANGED sigint
    ELSE /\ sigint' = SigintInRun(sigint)
         /\ IF CanAcquire
            THEN Drain(d, waiters, waitCancelled, el)
            ELSE /\ pc' = [pc EXCEPT ![d] = "lockwait"]
                 /\ waiters' = Append(waiters, d)
                 /\ ready' = Tail(ready)
                 /\ batch' = CurBatch - 1
                 /\ errlog' = el
                 /\ UNCHANGED <<tasks, executed, locked, waitCancelled,
                                loop_stopped, flagSets, drainReturned, propagated>>

\* ------------------------------------------------ wrap.run_func, task, ref

\* A task that is scheduled without being kept.
RefNotKept(bg, t) == bg

\* ref(): the set after `_bg_tasks.add(_task)`.
RefAdd(bg, t) == bg \cup {t}

\* ref(): the done callback `_bg_tasks.discard`.
RefDiscard(bg, t) == bg \ {t}

\* The first step of a supervised task that was cancelled before it started:
\* the coroutine ends with CancelledError before run_func's try is entered.
SupCancelledUnstarted(t) ==
    /\ CanRun /\ Head(ready) = <<"step", t>>
    /\ t \in Sup /\ pc[t] = "start" /\ cancelReq[t]
    /\ Quiet(t, "done_cancelled", DoneCb(t), errlog)
    /\ UNCHANGED <<initVars, stopping, cur, cancelReq, kinds, lateReg,
                   sigint, bg_tasks, hooks, failed, pendingAtFail>>

\* An error that leaves the wrapped coroutine and takes the fatal path,
\* whatever it is.
EscalatesAll(e) == TRUE

\* run_func's handlers: `except CancelledError: return` comes first, so only
\* an error that is an Exception and no CancelledError takes the fatal path.
Escalates(e) == e = "exception"

\* `except Exception as e`: log the error, then `await atexit.run()`.
FatalPath(t) ==
    /\ failed' = failed \cup {t}
    /\ pendingAtFail' = [pendingAtFail EXCEPT ![t] = Range(tasks)]
    /\ EnterRun(t, errlog \cup {LogEntry(t, 0)})

\* The body was cancelled while it awaited: CancelledError is raised inside
\* run_func's try.
SupCancelledInBody(t) ==
    /\ CanRun /\ Head(ready) = <<"step", t>>
    /\ t \in Sup /\ pc[t] = "io" /\ cancelReq[t]
    /\ IF Escalates("cancelled")
       THEN FatalPath(t)
       ELSE /\ Quiet(t, "done_ok", DoneCb(t), errlog)
            /\ UNCHANGED <<sigint, failed, pendingAtFail>>
    /\ UNCHANGED <<initVars, stopping, cur, cancelReq, kinds, lateReg,
                   bg_tasks, hooks>>

SupBodyRuns(t) ==
    /\ CanRun /\ Head(ready) = <<"step", t>>
    /\ t \in Sup /\ pc[t] \in {"start", "io"} /\ ~cancelReq[t]

\* The wrapped coroutine awaits I/O or a timer.
SupBlock(t) ==
    /\ SupBodyRuns(t)
    /\ Quiet(t, "io", <<>>, errlog)
    /\ UNCHANGED <<initVars, stopping, cur, cancelReq, kinds, lateReg,
                   sigint, bg_tasks, hooks, failed, pendingAtFail>>

\* `return await coro`: the wrapped coroutine returns.
SupReturn(t) ==
    /\ SupBodyRuns(t)
    /\ Quiet(t, "done_ok", DoneCb(t), errlog)
    /\ UNCHANGED <<initVars, stopping, cur, cancelReq, kinds, lateReg,
                   sigint, bg_tasks, hooks, failed, pendingAtFail>>

\* The wrapped coroutine raises an Exception.
SupFail(t) ==
    /\ SupBodyRuns(t)
    /\ Escalates("exception")
    /\ FatalPath(t)
    /\ UNCHANGED <<initVars, stopping, cur, cancelReq, kinds, lateReg,
                   bg_tasks, hooks>>

\* ---------------------------------------- AtExit.run(), after a suspension

WithoutWaiter(ws, d) == SelectSeq(ws, LAMBDA w : w # d)

\* The waiter's future has a result: d takes the lock and drains.
LockGranted(d) ==
    /\ CanRun /\ Head(ready) = <<"step", d>>
    /\ d \in Drainers /\ pc[d] = "lockwait" /\ ~cancelReq[d]
    /\ Drain(d, WithoutWaiter(waiters, d), waitCancelled, errlog)
    /\ UNCHANGED <<initVars, stopping, cur, cancelReq, kinds, lateReg,
                   sigint, bg_tasks, hooks, failed, pendingAtFail>>

\* Lock.acquire's `except CancelledError`: d was cancelled while it waited.
LockWaitCancelled(d) ==
    /\ CanRun /\ Head(ready) = <<"step", d>>
    /\ d \in Drainers /\ pc[d] = "lockwait" /\ cancelReq[d]
    /\ LET ws == WithoutWaiter(waiters, d)
           rel == IF locked THEN <<>> ELSE WakeFirst(ws, Tail(ready))
       IN  /\ waiters' = ws
           /\ waitCancelled' = waitCancelled \ {d}
           /\ pc' = [pc EXCEPT ![d] = "done_cancelled"]
           /\ ready' = Tail(ready) \o rel \o DoneCb(d)
           /\ batch' = CurBatch - 1
    /\ UNCHANGED <<initVars, stopping, cur, cancelReq, regVars, locked,
                   sigint, bg_tasks, supVars, errlog, histVars>>

\* The awaited action returned: the while loop goes on.
ActionReturned(d) ==
    /\ CanRun /\ Head(ready) = <<"step", d>>
    /\ d \in Drainers /\ pc[d] = "inaction" /\ ~cancelReq[d]
    /\ Drain(d, waiters, waitCancelled, errlog)
    /\ UNCHANGED <<initVars, stopping, cur, cancelReq, kinds, lateReg,
                   sigint, bg_tasks, hooks, failed, pendingAtFail>>

\* d was cancelled while it awaited an action: CancelledError is raised in the
\* action (in the acquire of the run() it awaits, for one that re-entered),
\* passes `except Exception`, and `async with` releases the lock.
ActionCancelled(d) ==
    /\ CanRun /\ Head(ready) = <<"step", d>>
    /\ d \in Drainers /\ pc[d] \in {"inaction", "reentered"} /\ cancelReq[d]
    /\ locked' = FALSE
    /\ pc' = [pc EXCEPT ![d] = "done_cancelled"]
    /\ ready' = Tail(ready) \o WakeFirst(waiters, Tail(ready)) \o DoneCb(d)
    /\ batch' = CurBatch - 1
    /\ propagated' = propagated \cup {Last(executed)}
    /\ UNCHANGED <<initVars, stopping, cur, cancelReq, regVars, waiters,
                   waitCancelled, sigint, bg_tasks, supVars, errlog, drainReturned>>

\* After `await asyncio.sleep(0)`: `sys.excepthook(*sys.exc_info())`.
SupHook(t) ==
    /\ CanRun /\ Head(ready) = <<"step", t>>
    /\ t \in Sup /\ pc[t] = "yielded" /\ ~cancelReq[t]
    /\ hooks' = [hooks EXCEPT ![t] = @ + 1]
    /\ Quiet(t, "done_ok", DoneCb(t), errlog)
    /\ UNCHANGED <<initVars, stopping, cur, cancelReq, kinds, lateReg,
                   sigint, bg_tasks, failed, pendingAtFail>>

\* The task was cancelled while it slept: CancelledError leaves run_func.
SupCancelledAtYield(t) ==
    /\ CanRun /\ Head(ready) = <<"step", t>>
    /\ t \in Sup /\ pc[t] = "yielded" /\ cancelReq[t]
    /\ Quiet(t, "done_cancelled", DoneCb(t), errlog)
    /\ UNCHANGED <<initVars, stopping, cur, cancelReq, kinds, lateReg,
                   sigint, bg_tasks, hooks, failed, pendingAtFail>>

\* ref(): the done callback of a supervised task runs.
Discard(t) ==
    /\ CanRun /\ Head(ready) = <<"discard", t>>
    /\ bg_tasks' = RefDiscard(bg_tasks, t)
    /\ ready' = Tail(ready)
    /\ batch' = CurBatch - 1
    /\ UNCHANGED <<initVars, stopping, cur, pc, cancelReq, regVars,
                   lockVars, sigint, supVars, errlog, histVars>>

\* ------------------------------------------------------- the entry unit

\* The loop resumes the entry unit; what it does up to its next suspension
\* are the steps below that need cur = "main".
MainBegin ==
    /\ CanRun /\ Head(ready) = <<"step", "main">>
    /\ cur' = "main"
    /\ ready' = Tail(ready)
    /\ batch' = CurBatch - 1
    /\ UNCHANGED <<initVars, stopping, pc, cancelReq, regVars, lockVars,
                   sigint, bg_tasks, supVars, errlog, histVars>>

\* task(): asyncio.create_task(wrap(coro)()) and ref() of the new task.  The
\* tasks are alike: they are scheduled in the order t1, t2.
Spawn(t) ==
    /\ cur = "main"
    /\ t \in Sup /\ pc[t] = "unspawned"
    /\ t = "t2" => pc["t1"] # "unspawned"
    /\ pc' = [pc EXCEPT ![t] = "start"]
    /\ ready' = Append(ready, <<"step", t>>)
    /\ bg_tasks' = RefAdd(bg_tasks, t)
    /\ UNCHANGED <<initVars, batch, stopping, cur, cancelReq, regVars,
                   lockVars, sigint, supVars, errlog, histVars>>

\* AtExit.register: append a callback of kind k.
Register(k) ==
    /\ cur = "main"
    /\ Len(kinds) < MaxActions
    /\ kinds' = Append(kinds, k)
    /\ tasks' = Append(tasks, Len(kinds) + 1)
    /\ lateReg' = (lateReg \/ sigint = "ignored")
    /\ UNCHANGED <<initVars, loopVars, pc, cancelReq, executed, lockVars,
                   sigint, bg_tasks, supVars, errlog, histVars>>

\* Task.cancel() on the handle task() returned: the future the task awaits is
\* cancelled and its wakeup queued; a task that awaits nothing is marked.
Cancel(t) ==
    /\ cur = "main"
    /\ t \in Sup /\ pc[t] \notin Done \cup {"unspawned"} /\ ~cancelReq[t]
    /\ cancelReq' = [cancelReq EXCEPT ![t] = TRUE]
    /\ ready' = IF InReady(ready, t) THEN ready ELSE Append(ready, <<"step", t>>)
    /\ waitCancelled' = IF pc[t] = "lockwait" /\ ~InReady(ready, t)
                        THEN waitCancelled \cup {t} ELSE waitCancelled
    /\ UNCHANGED <<initVars, batch, stopping, cur, pc, regVars, locked,
                   waiters, sigint, bg_tasks, supVars, errlog, histVars>>

\* The entry unit awaits I/O or a timer.
MainBlock ==
    /\ cur = "main"
    /\ pc' = [pc EXCEPT !["main"] = "io"]
    /\ cur' = "none"
    /\ UNCHANGED <<initVars, ready, batch, stopping, cancelReq, regVars, lockVars,
                   sigint, bg_tasks, supVars, errlog, histVars>>

\* The entry unit returns.
MainReturn ==
    /\ cur = "main"
    /\ pc' = [pc EXCEPT !["main"] = "done_ok"]
    /\ cur' = "none"
    /\ ready' = ready \o DoneCb("main")
    /\ UNCHANGED <<initVars, batch, stopping, cancelReq, regVars, lockVars,
                   sigint, bg_tasks, supVars, errlog, histVars>>

\* The entry unit raises an Exception.
MainRaise ==
    /\ cur = "main"
    /\ pc' = [pc EXCEPT !["main"] = "done_exc"]
    /\ cur' = "none"
    /\ ready' = ready \o DoneCb("main")
    /\ UNCHANGED <<initVars, batch, stopping, cancelReq, regVars, lockVars,
                   sigint, bg_tasks, supVars, errlog, histVars>>

\* ------------------------------------------------------- the loop's steps

\* A timer fires or I/O completes, between two batches: the task that awaits
\* it is queued.
ExternalWake(t) ==
    /\ LoopRunning /\ cur = "none" /\ batch = 0 /\ ~stopping
    /\ t \in Procs /\ pc[t] \in {"io", "inaction"} /\ ~InReady(ready, t)
    /\ ready' = Append(ready, <<"step", t>>)
    /\ UNCHANGED <<initVars, batch, stopping, cur, pc, cancelReq, regVars,
                   lockVars, sigint, bg_tasks, supVars, errlog, histVars>>

\* run_until_complete's done callback: loop.stop().
RunUntilCompleteCb(t) ==
    /\ CanRun /\ Head(ready) = <<"rucb", t>>
    /\ ready' = Append(Tail(ready), <<"stop", "loop">>)
    /\ batch' = CurBatch - 1
    /\ UNCHANGED <<initVars, stopping, cur, pc, cancelReq, regVars,
                   lockVars, sigint, bg_tasks, supVars, errlog, histVars>>

\* The callback loop.stop() queued: the loop stops when this batch ends.
StopCb ==
    /\ CanRun /\ Head(ready) = <<"stop", "loop">>
    /\ stopping' = TRUE
    /\ ready' = Tail(ready)
    /\ batch' = CurBatch - 1
    /\ UNCHANGED <<initVars, cur, pc, cancelReq, regVars, lockVars,
                   sigint, bg_tasks, supVars, errlog, histVars>>

\* ------------------------------------------------------------------ init

\* `threading.current_thread() is threading.main_thread() and _loop_stopped`
ExitsHard == mainThread /\ loop_stopped

\* `if not _loop_stopped:` of the finally block
FinallyDrains == ~loop_stopped

\* How init() is left when e is the exception in flight at the end of finally.
OutcomeOf(e) ==
    CASE e = "none" -> "returned"
      [] e = "sysexit" -> "exit1"
      [] e = "kbd" -> "interrupt"
      [] OTHER -> "reraised"

\* init() from the return of run_until_complete(coro) with e ("none": it
\* returned) through the except clause into the finally block.
LeaveRun1(e) ==
    LET caught == e \in {"entry", "rt"}
        e2 == IF caught /\ ExitsHard THEN "sysexit" ELSE e
    IN  /\ errlog' = IF caught /\ ~ExitsHard
                     THEN errlog \cup {LogEntry("init", 0)} ELSE errlog
        /\ exc' = e2
        /\ stopping' = FALSE
        /\ IF FinallyDrains
           THEN /\ initpc' = "run2"
                /\ pc' = [pc EXCEPT !["fin"] = "start"]
                /\ ready' = Append(ready, <<"step", "fin">>)
                /\ UNCHANGED outcome
           ELSE /\ initpc' = "done"
                /\ outcome' = OutcomeOf(e2)
                /\ UNCHANGED <<pc, ready>>
        /\ UNCHANGED <<fixedVars, batch, cur, cancelReq, regVars, lockVars,
                       sigint, bg_tasks, supVars, histVars>>

\* The loop stopped: run_until_complete(coro) returns the entry unit's result,
\* raises its exception, or raises RuntimeError when it is not done.
LoopReturn1 ==
    /\ initpc = "run1" /\ cur = "none" /\ batch = 0 /\ stopping
    /\ LeaveRun1(CASE pc["main"] = "done_ok" -> "none"
                   [] pc["main"] = "done_exc" -> "entry"
                   [] OTHER -> "rt")

\* SIGINT while it is not ignored: KeyboardInterrupt leaves run_until_complete.
Interrupt ==
    /\ initpc = "run1" /\ cur = "none" /\ batch = 0 /\ ~stopping
    /\ mainThread /\ sigint = "default"
    /\ LeaveRun1("kbd")

\* `loop.run_until_complete(atexit.run())` of the finally block begins with the
\* first step of "fin".
FinStart ==
    /\ CanRun /\ Head(ready) = <<"step", "fin">>
    /\ pc["fin"] = "start"
    /\ EnterRun("fin", errlog)
    /\ UNCHANGED <<initVars, stopping, cur, cancelReq, kinds, lateReg,
                   bg_tasks, hooks, failed, pendingAtFail>>

\* The loop stopped: run_until_complete(atexit.run()) returns, or raises what
\* the drain raised, or RuntimeError when the drain is not done.
LoopReturn2 ==
    /\ initpc = "run2" /\ cur = "none" /\ batch = 0 /\ stopping
    /\ initpc' = "done"
    /\ stopping' = FALSE
    /\ outcome' = IF pc["fin"] = "done_ok" THEN OutcomeOf(exc) ELSE "raised_other"
    /\ UNCHANGED <<fixedVars, exc, ready, batch, cur, pc, cancelReq,
                   regVars, lockVars, sigint, bg_tasks, supVars, errlog, histVars>>

\* ------------------------------------------------------- the specification

Next ==
    \/ MainBegin
    \/ \E t \in Sup : Spawn(t)
    \/ \E k \in Kinds : Register(k)
    \/ \E t \in Sup : Cancel(t)
    \/ MainBlock
    \/ MainReturn
    \/ MainRaise
    \/ \E t \in Sup : SupCancelledUnstarted(t)
    \/ \E t \in Sup : SupCancelledInBody(t)
    \/ \E t \in Sup : SupBlock(t)
    \/ \E t \in Sup : SupReturn(t)
    \/ \E t \in Sup : SupFail(t)
    \/ \E d \in Drainers : LockGranted(d)
    \/ \E d \in Drainers : LockWaitCancelled(d)
    \/ \E d \in Drainers : ActionReturned(d)
    \/ \E d \in Drainers : ActionCancelled(d)
    \/ \E t \in Sup : SupHook(t)
    \/ \E t \in Sup : SupCancelledAtYield(t)
    \/ \E t \in Sup : Discard(t)
    \/ \E t \in Procs : ExternalWake(t)
    \/ \E t \in {"main", "fin"} : RunUntilCompleteCb(t)
    \/ StopCb
    \/ LoopReturn1
    \/ FinStart
    \/ LoopReturn2

Spec == Init /\ [][Next]_vars

\* The same with SIGINT delivered while run_until_complete(coro) runs.
NextInterrupt == Next \/ Interrupt

SpecInterrupt == Init /\ [][NextInterrupt]_vars

\* The same with shutdown actions that await atexit.run() themselves.
NextReenter == Next \/ \E k \in KindsReenter : Register(k)

SpecReenter == Init /\ [][NextReenter]_vars

\* ------------------------------------- init(): debug setup; HandleSIGUSR2

MaxSignals == 4     \* SIGUSR2 signals delivered in one execution
MaxDumps == 2       \* stack dumps one execution writes

\* `if debug is None`: the explicit argument as given.
DebugExplicitOnly(arg, dbg, ld) == IF arg = "none" THEN dbg ELSE arg = "true"

\* `(_debugging if debug is None else debug) or loop.get_debug()`
DebugEnabled(arg, dbg, ld) ==
    (IF arg = "none" THEN dbg ELSE arg = "true") \/ ld

\* The signal handler runs on the main thread: asyncio.create_task() finds a
\* running loop there only while init()'s loop runs on the main thread.
LoopInHandlerThread == dphase = "running" /\ mainThread

Pending(m) == m \in {"created", "sleeping"}

\* A handler that never finds self.monitor.
HasMonitorNever(m) == FALSE

\* `try: self.monitor` does not raise AttributeError.
HasMonitor(m) == m # "unset"

\* The import of aio on the main thread installed the handler; init() is
\* called with any debug argument, under any ambient configuration.
InitDiag ==
    /\ InitAtExit
    /\ debugArg \in {"none", "true", "false"}
    /\ debugging \in BOOLEAN
    /\ loopDebug \in BOOLEAN
    /\ instrumented = "unset"
    /\ dphase = "imported"
    /\ monitor = "unset" /\ monCancelReq = FALSE /\ orphans = 0
    /\ signals = 0 /\ handlerErrors = 0 /\ dumps = 0
    /\ LockInit

atexitVars == <<initpc, exc, outcome, loopVars, pc, cancelReq, regVars, lockVars,
                sigint, supVars, bg_tasks, errlog, histVars>>

\* init() up to run_until_complete(coro).
InitDebugSetup ==
    /\ dphase = "imported"
    /\ instrumented' = IF DebugEnabled(debugArg, debugging, loopDebug)
                       THEN "on" ELSE "off"
    /\ dphase' = "running"
    /\ UNCHANGED <<mainThread, debugArg, debugging, loopDebug, monVars, atexitVars, aioLockVars>>

\* init() is left: the loop runs no more.
InitLeft ==
    /\ dphase = "running"
    /\ dphase' = "finished"
    /\ UNCHANGED <<mainThread, debugVars, monVars, atexitVars, aioLockVars>>

\* handle_sigusr2
HandleSigusr2 ==
    /\ dphase # "off"
    /\ signals < MaxSignals
    /\ signals' = signals + 1
    /\ IF ~HasMonitor(monitor)
       THEN IF LoopInHandlerThread
            THEN /\ monitor' = "created"
                 /\ monCancelReq' = FALSE
                 /\ orphans' = orphans + (IF Pending(monitor) /\ ~monCancelReq
                                          THEN 1 ELSE 0)
                 /\ UNCHANGED handlerErrors
            ELSE \* RuntimeError('no running event loop') leaves the handler
                 /\ handlerErrors' = handlerErrors + 1
                 /\ UNCHANGED <<monitor, monCancelReq, orphans>>
       ELSE /\ monCancelReq' = (monCancelReq \/ Pending(monitor))
            /\ UNCHANGED <<monitor, orphans, handlerErrors>>
    /\ UNCHANGED <<mainThread, debugVars, dphase, dumps, atexitVars, aioLockVars>>

\* The first step of do_monitor: one dump, then sleep(1); a task cancelled
\* before it has the CancelledError thrown into the coroutine not yet started.
MonitorStart ==
    /\ LoopInHandlerThread
    /\ monitor = "created"
    /\ IF monCancelReq
       THEN monitor' = "done_cancelled" /\ UNCHANGED dumps
       ELSE /\ dumps < MaxDumps
            /\ monitor' = "sleeping" /\ dumps' = dumps + 1
    /\ UNCHANGED <<mainThread, debugVars, dphase, monCancelReq, orphans, signals,
                   handlerErrors, atexitVars, aioLockVars>>

\* sleep(1) ends: the next dump, or the CancelledError that suppress() ends
\* the coroutine on.
MonitorWake ==
    /\ LoopInHandlerThread
    /\ monitor = "sleeping"
    /\ IF monCancelReq
       THEN monitor' = "done_ok" /\ UNCHANGED dumps
       ELSE /\ dumps < MaxDumps
            /\ dumps' = dumps + 1 /\ UNCHANGED monitor
    /\ UNCHANGED <<mainThread, debugVars, dphase, monCancelReq, orphans, signals,
                   handlerErrors, atexitVars, aioLockVars>>

NextDiag ==
    \/ InitDebugSetup
    \/ InitLeft
    \/ HandleSigusr2
    \/ MonitorStart
    \/ MonitorWake

SpecDiag == InitDiag /\ [][NextDiag]_vars

\* ---------------------------------------------------- Lock(asyncio.Lock)

MaxCalls == 5       \* calls of Lock.acquire in one execution

\* The callback the loop runs for a waiter of the lock whose future is done:
\* the step of the task that awaits it (the caller, or wait_for's inner task).
StepOf(w) == IF upc[w] = "bwait" THEN <<"wake", w>> ELSE <<"inner", w>>

\* An acquire that takes the lock whether it is held or not.
TakesAnyway(l) == TRUE

\* asyncio.Lock.acquire, fast path: `not self._locked and all(w.cancelled() ...)`
FreeToTake(l) == ~l /\ \A w \in Range(lwaiters) : lfut[w] = "cancelled"

\* asyncio.Lock._wake_up_first on the waiters ws: the waiter whose future gets
\* its result ("none": no waiter, or the first one's future is done).
WokenFirst(ws) ==
    IF ws # <<>> /\ lfut[Head(ws)] = "pending" THEN Head(ws) ELSE "none"

\* An acquire that leaves its future among the waiters.
WithoutUserKeeps(ws, u) == ws

\* asyncio.Lock.acquire, `finally: self._waiters.remove(fut)`.
WithoutUser(ws, u) == SelectSeq(ws, LAMBDA w : w # u)

\* The ready queue without the timeout callback of u (timeout_handle.cancel()).
WithoutTimeout(rdy, u) == SelectSeq(rdy, LAMBDA e : e # <<"timeout", u>>)

InQueue(e) == \E i \in 1..Len(lready) : lready[i] = e

\* An acquire(wait=False) that does not look at locked().
RefusesNever(l) == FALSE

\* `if self.locked(): return False`
RefusesWhenLocked(l) == l

\* A timeout that is not caught.
TimeoutRaises(u) == "raised"

\* `except AsyncioTimeout: return False`
TimeoutResult(u) == "false"

\* `self._locked = True; return True`: u owns the lock.
OwnersWith(os, u) == os \cup {u}

\* The users of the lock run on init()'s loop, on the main thread.
InitLock == InitAtExit /\ mainThread /\ DiagOff /\ LockInit

notLockVars == <<mainThread, diagVars, atexitVars>>

\* u calls `await lock.acquire()`: asyncio.Lock.acquire up to its await.
AcquireBlocking(u) ==
    /\ upc[u] = "idle" /\ ncalls < MaxCalls
    /\ ncalls' = ncalls + 1
    /\ lastCall' = [who |-> u, wait |-> TRUE]
    /\ IF FreeToTake(held)
       THEN /\ held' = TRUE
            /\ owners' = OwnersWith(owners, u)
            /\ upc' = [upc EXCEPT ![u] = "holding"]
            /\ uret' = [uret EXCEPT ![u] = "true"]
            /\ lastVia' = "fast"
            /\ UNCHANGED <<lwaiters, lfut>>
       ELSE /\ lwaiters' = Append(lwaiters, u)
            /\ lfut' = [lfut EXCEPT ![u] = "pending"]
            /\ upc' = [upc EXCEPT ![u] = "bwait"]
            /\ uret' = [uret EXCEPT ![u] = "none"]
            /\ UNCHANGED <<held, owners, lastVia>>
    /\ UNCHANGED <<inner, mustCancel, wfut, timers, lready, notLockVars>>

\* u calls `await lock.acquire(wait=False)`: up to the return False, or up to
\* wait_for's `await waiter`.  The timeout of 1e-9 s is due at once: its
\* callback is queued before the inner task's first step (a loop that turns a
\* delay of 0 ms into call_soon) or is queued by the timer later.
AcquireNonBlocking(u) ==
    /\ upc[u] = "idle" /\ ncalls < MaxCalls
    /\ ncalls' = ncalls + 1
    /\ lastCall' = [who |-> u, wait |-> FALSE]
    /\ IF RefusesWhenLocked(held)
       THEN /\ uret' = [uret EXCEPT ![u] = "false"]
            /\ lastVia' = "refused"
            /\ UNCHANGED <<upc, inner, wfut, timers, lready>>
       ELSE /\ uret' = [uret EXCEPT ![u] = "none"]
            /\ upc' = [upc EXCEPT ![u] = "nbwait"]
            /\ inner' = [inner EXCEPT ![u] = "created"]
            /\ wfut' = [wfut EXCEPT ![u] = "pending"]
            /\ UNCHANGED lastVia
            /\ \/ /\ lready' = lready \o << <<"timeout", u>>, <<"inner", u>> >>
                  /\ UNCHANGED timers
               \/ /\ lready' = Append(lready, <<"inner", u>>)
                  /\ timers' = timers \cup {u}
    /\ UNCHANGED <<held, owners, lwaiters, lfut, mustCancel, notLockVars>>

\* The timer of wait_for is due.
TimerFires(u) ==
    /\ u \in timers
    /\ timers' = timers \ {u}
    /\ lready' = Append(lready, <<"timeout", u>>)
    /\ UNCHANGED <<held, owners, lwaiters, lfut, upc, uret, inner, mustCancel,
                   wfut, ncalls, lastCall, lastVia, notLockVars>>

\* _release_waiter(waiter), called by the timer.
TimeoutCb(u) ==
    /\ lready # <<>> /\ Head(lready) = <<"timeout", u>>
    /\ IF wfut[u] = "pending"
       THEN /\ wfut' = [wfut EXCEPT ![u] = "done"]
            /\ lready' = Append(Tail(lready), <<"wake", u>>)
       ELSE /\ lready' = Tail(lready)
            /\ UNCHANGED wfut
    /\ UNCHANGED <<held, owners, lwaiters, lfut, upc, uret, inner, mustCancel,
                   timers, ncalls, lastCall, lastVia, notLockVars>>

\* u calls lock.release(): asyncio.Lock.release.
Release(u) ==
    /\ upc[u] = "holding"
    /\ held
    /\ LET w == WokenFirst(lwaiters)
       IN  /\ held' = FALSE
           /\ owners' = owners \ {u}
           /\ upc' = [upc EXCEPT ![u] = "idle"]
           /\ uret' = [uret EXCEPT ![u] = "none"]
           /\ IF w = "none"
              THEN UNCHANGED <<lfut, lready>>
              ELSE /\ lfut' = [lfut EXCEPT ![w] = "result"]
                   /\ lready' = Append(lready, StepOf(w))
    /\ UNCHANGED <<lwaiters, inner, mustCancel, wfut, timers, ncalls, lastCall,
                   lastVia, notLockVars>>

\* Task.cancel() on u while it waits in acquire(): the future is cancelled, or
\* when it is done already the task is marked to be cancelled at its next step.
CancelBlocked(u) ==
    /\ upc[u] = "bwait" /\ u \notin mustCancel
    /\ IF lfut[u] = "pending"
       THEN /\ lfut' = [lfut EXCEPT ![u] = "cancelled"]
            /\ lready' = Append(lready, <<"wake", u>>)
            /\ UNCHANGED mustCancel
       ELSE /\ lfut[u] = "result"
            /\ mustCancel' = mustCancel \cup {u}
            /\ UNCHANGED <<lfut, lready>>
    /\ UNCHANGED <<held, owners, lwaiters, upc, uret, inner, wfut, timers,
                   ncalls, lastCall, lastVia, notLockVars>>

\* The callbacks that the completion of u's inner task queues: wait_for's
\* done callback releases its waiter; _cancel_and_wait's releases its own.
Notified(u, rdy) ==
    IF upc[u] = "nbwait" /\ wfut[u] # "pending" THEN rdy
    ELSE Append(rdy, <<"wake", u>>)

\* The future of a waiter w resumed with a CancelledError: acquire() removed
\* it from the waiters (ws: those left) and, the lock being free, wakes the
\* first of them.
PassedOn(ws) == IF ~held THEN WokenFirst(ws) ELSE "none"

\* A task that waits in asyncio.Lock.acquire is resumed: u itself.
WakeBlocked(u) ==
    /\ lready # <<>> /\ Head(lready) = <<"wake", u>>
    /\ upc[u] = "bwait"
    /\ lwaiters' = WithoutUser(lwaiters, u)
    /\ mustCancel' = mustCancel \ {u}
    /\ IF lfut[u] = "cancelled" \/ u \in mustCancel
       THEN LET w == PassedOn(WithoutUser(lwaiters, u))
            IN  /\ upc' = [upc EXCEPT ![u] = "idle"]
                /\ uret' = [uret EXCEPT ![u] = "cancelled"]
                /\ lastVia' = "cancelled"
                /\ lfut' = [x \in Users |-> IF x = u THEN "none"
                                            ELSE IF x = w THEN "result"
                                            ELSE lfut[x]]
                /\ lready' = IF w = "none" THEN Tail(lready)
                             ELSE Append(Tail(lready), StepOf(w))
                /\ UNCHANGED <<held, owners>>
       ELSE /\ held' = TRUE
            /\ owners' = OwnersWith(owners, u)
            /\ upc' = [upc EXCEPT ![u] = "holding"]
            /\ uret' = [uret EXCEPT ![u] = "true"]
            /\ lastVia' = "handoff"
            /\ lfut' = [lfut EXCEPT ![u] = "none"]
            /\ lready' = Tail(lready)
    /\ UNCHANGED <<inner, wfut, timers, ncalls, lastCall, notLockVars>>

\* A step of the task that wait_for made of super().acquire() for u.
InnerStep(u) ==
    /\ lready # <<>> /\ Head(lready) = <<"inner", u>>
    /\ inner[u] \in {"created", "waiting"}
    /\ mustCancel' = mustCancel \ {u}
    /\ IF lfut[u] = "cancelled" \/ u \in mustCancel
       THEN LET ws == WithoutUser(lwaiters, u)
                w == IF inner[u] = "waiting" THEN PassedOn(ws) ELSE "none"
            IN  /\ inner' = [inner EXCEPT ![u] = "done_cancelled"]
                /\ lwaiters' = ws
                /\ lfut' = [x \in Users |-> IF x = u THEN "none"
                                            ELSE IF x = w THEN "result"
                                            ELSE lfut[x]]
                /\ lready' = Notified(u, IF w = "none" THEN Tail(lready)
                                         ELSE Append(Tail(lready), StepOf(w)))
                /\ wfut' = [wfut EXCEPT ![u] = "done"]
                /\ UNCHANGED <<held, owners>>
       ELSE IF inner[u] = "waiting" \/ FreeToTake(held)
       THEN /\ held' = TRUE
            /\ owners' = OwnersWith(owners, u)
            /\ inner' = [inner EXCEPT ![u] = "done_true"]
            /\ lwaiters' = WithoutUser(lwaiters, u)
            /\ lfut' = [lfut EXCEPT ![u] = "none"]
            /\ lready' = Notified(u, Tail(lready))
            /\ wfut' = [wfut EXCEPT ![u] = "done"]
       ELSE /\ inner' = [inner EXCEPT ![u] = "waiting"]
            /\ lwaiters' = Append(lwaiters, u)
            /\ lfut' = [lfut EXCEPT ![u] = "pending"]
            /\ lready' = Tail(lready)
            /\ UNCHANGED <<held, owners, wfut>>
    /\ UNCHANGED <<upc, uret, timers, ncalls, lastCall, lastVia, notLockVars>>

\* wait_for is over for u with result r: `finally: timeout_handle.cancel()`.
Returned(u, r) ==
    /\ uret' = [uret EXCEPT ![u] = r]
    /\ upc' = [upc EXCEPT ![u] = IF r = "true" THEN "holding" ELSE "idle"]
    /\ inner' = [inner EXCEPT ![u] = "none"]
    /\ wfut' = [wfut EXCEPT ![u] = "none"]
    /\ timers' = timers \ {u}
    /\ lready' = WithoutTimeout(Tail(lready), u)
    /\ lastVia' = (IF r = "true" THEN "inner" ELSE IF r = "false" THEN "timeout"
                   ELSE "raised")
    /\ UNCHANGED <<lfut, mustCancel>>

\* wait_for after `await waiter`: the result of the inner task when it is
\* done, else _cancel_and_wait: cancel it and wait for its end.
WakeCaller(u) ==
    /\ lready # <<>> /\ Head(lready) = <<"wake", u>>
    /\ upc[u] = "nbwait"
    /\ CASE inner[u] = "done_true" -> Returned(u, "true")
         [] inner[u] = "done_cancelled" -> Returned(u, "raised")
         [] inner[u] = "created" ->
              /\ upc' = [upc EXCEPT ![u] = "nbcancel"]
              /\ mustCancel' = mustCancel \cup {u}
              /\ lready' = Tail(lready)
              /\ UNCHANGED <<uret, inner, wfut, timers, lfut, lastVia>>
         [] inner[u] = "waiting" ->
              /\ upc' = [upc EXCEPT ![u] = "nbcancel"]
              /\ IF lfut[u] = "pending"
                 THEN /\ lfut' = [lfut EXCEPT ![u] = "cancelled"]
                      /\ lready' = Append(Tail(lready), <<"inner", u>>)
                      /\ UNCHANGED mustCancel
                 ELSE /\ mustCancel' = mustCancel \cup {u}
                      /\ lready' = Tail(lready)
                      /\ UNCHANGED lfut
              /\ UNCHANGED <<uret, inner, wfut, timers, lastVia>>
    /\ UNCHANGED <<held, owners, lwaiters, ncalls, lastCall, notLockVars>>

\* wait_for after _cancel_and_wait: the inner task's result if it took the
\* lock all the same, else TimeoutError, which acquire() turns into False.
WakeCancelled(u) ==
    /\ lready # <<>> /\ Head(lready) = <<"wake", u>>
    /\ upc[u] = "nbcancel"
    /\ inner[u] \in {"done_true", "done_cancelled"}
    /\ Returned(u, IF inner[u] = "done_true" THEN "true" ELSE TimeoutResult(u))
    /\ UNCHANGED <<held, owners, lwaiters, ncalls, lastCall, notLockVars>>

NextLock ==
    \/ \E u \in Users : AcquireBlocking(u)
    \/ \E u \in Users : AcquireNonBlocking(u)
    \/ \E u \in Users : TimerFires(u)
    \/ \E u \in Users : TimeoutCb(u)
    \/ \E u \in Users : Release(u)
    \/ \E u \in Users : CancelBlocked(u)
    \/ \E u \in Users : WakeBlocked(u)
    \/ \E u \in Users : InnerStep(u)
    \/ \E u \in Users : WakeCaller(u)
    \/ \E u \in Users : WakeCancelled(u)

SpecLock == InitLock /\ [][NextLock]_vars

TypeOK ==
    /\ mainThread \in BOOLEAN
    /\ initpc \in {"run1", "run2", "done"}
    /\ exc \in {"none", "entry", "rt", "kbd", "sysexit"}
    /\ outcome \in {"none", "returned", "exit1", "reraised", "raised_other", "interrupt"}
    /\ batch \in 0..(Len(ready) + 1)
    /\ cur \in {"none", "main"}
    /\ pc \in [Procs -> {"unspawned", "start", "io", "lockwait", "inaction",
                         "reentered", "yielded"} \cup Done]
    /\ Range(tasks) \subseteq 1..Len(kinds)
    /\ Range(executed) \subseteq 1..Len(kinds)
    /\ Range(waiters) \subseteq Drainers
    /\ waitCancelled \subseteq Range(waiters)
    /\ sigint \in {"default", "ignored"}
    /\ bg_tasks \subseteq Sup
    /\ locked \in BOOLEAN /\ loop_stopped \in BOOLEAN /\ stopping \in BOOLEAN

\* ================================================================ claims

Reverse(s) == [i \in 1..Len(s) |-> s[Len(s) + 1 - i]]

\* The registrations, in order: action a is the a-th one registered.
Registered == [a \in 1..Len(kinds) |-> a]

\* C1: when the actions were all registered before the drain began, the actions
\* called so far followed by the reverse of what the registry still holds are
\* the registrations in reverse order (so they are called last-registered first,
\* each once), and once a call of run() has returned the registry is empty and
\* all of them were called.
C1_ReverseOrder ==
    ~lateReg =>
        /\ executed \o Reverse(tasks) = Reverse(Registered)
        /\ drainReturned # {} => tasks = <<>> /\ executed = Reverse(Registered)

\* C1 witness: a run() that returned after calling MaxActions actions.
C1_Witness ==
    /\ ~lateReg
    /\ drainReturned # {}
    /\ Len(executed) = MaxActions
    /\ Len(executed) >= 2

\* C2, as claimed: whatever an action raises, the error stays inside run() and
\* the drain goes on to the actions registered before it.
C2_AnyErrorContained ==
    \A j \in 1..Len(executed) :
        kinds[executed[j]] \in {"raise", "base"} =>
            /\ executed[j] \notin propagated
            /\ (~lateReg /\ j = Len(executed)) => tasks = <<>>

\* C3: no registered action is called more than once.
C3_AtMostOnce ==
    \A i, j \in 1..Len(executed) : i # j => executed[i] # executed[j]

\* C3 witness: a drain was cancelled in the middle, and the drain of init()'s
\* finally block called the action that was left.
C3_Witness ==
    /\ propagated # {}
    /\ "fin" \in drainReturned
    /\ Len(executed) = 2
    /\ \E t \in Sup : pc[t] = "done_cancelled" /\ t \in failed

\* What C4 and C8 are checked on: no action raised past run(), and none was
\* registered after a drain had begun.
PlainDrains == propagated = {} /\ ~lateReg

\* C4, as claimed: when init() has been left, every registered action has been
\* called.
C4_DrainedOnExit ==
    (outcome # "none" /\ PlainDrains) =>
        /\ tasks = <<>>
        /\ Range(executed) = 1..Len(kinds)

\* C5, as claimed: every supervised task that raised has had the hook called
\* exactly once by the time init() is left, and a hook is called only with the
\* flag set and the actions pending at the failure called.
C5_HookOncePerFailure ==
    /\ \A t \in Sup : hooks[t] > 0 =>
           /\ hooks[t] = 1
           /\ loop_stopped
           /\ pendingAtFail[t] \subseteq Range(executed)
    /\ (mainThread /\ outcome # "none") =>
           \A t \in failed : ~cancelReq[t] => hooks[t] = 1

StopsQueued(rdy) == Cardinality({i \in 1..Len(rdy) : rdy[i] = <<"stop", "loop">>})

\* The step in which the cancelled body of t ends.
CancelledBodyEnds(t) ==
    /\ pc[t] \in {"start", "io"} /\ cancelReq[t]
    /\ pc'[t] # pc[t]

\* C6: the step that ends a cancelled body ends the task and changes neither
\* the log, the registry, the flag, the hook calls nor the SIGINT disposition,
\* and queues no loop.stop(); a task whose body did not raise has no log line,
\* no hook call and no drain.
C6_CancelIsSilent ==
    /\ [](\A t \in Sup \ failed :
            /\ LogEntry(t, 0) \notin errlog
            /\ hooks[t] = 0
            /\ t \notin drainReturned)
    /\ [][\A t \in Sup : CancelledBodyEnds(t) =>
            /\ pc'[t] \in Done
            /\ UNCHANGED <<errlog, tasks, executed, loop_stopped, flagSets,
                           hooks, sigint, stopping, lockVars>>
            /\ StopsQueued(ready') <= StopsQueued(ready)]_vars

\* C6 witness: a task cancelled while its body awaited has ended, with
\* actions still registered.
C6_Witness ==
    \E t \in Sup :
        /\ cancelReq[t] /\ t \notin failed
        /\ pc[t] = "done_ok"
        /\ tasks # <<>>
        /\ ~loop_stopped

C8_ExitOrReraise ==
    (outcome # "none" /\ PlainDrains) =>
        /\ exc = "sysexit" => outcome = "exit1"
        /\ exc \in {"entry", "rt"} =>
               outcome = "reraised" /\ LogEntry("init", 0) \in errlog

\* C9, as claimed: on the main thread init() does not return normally once a
\* supervised task has performed the fatal shutdown.
C9_NoNormalReturnAfterFatal ==
    (mainThread /\ outcome = "returned") => ~loop_stopped

\* C10: a task that is scheduled and not done is in _bg_tasks, and a task
\* leaves _bg_tasks only when it is done, by its own done callback.
C10_RefHeld ==
    /\ [](\A t \in Sup : pc[t] \notin Done \cup {"unspawned"} => t \in bg_tasks)
    /\ [][\A t \in Sup : (t \in bg_tasks /\ t \notin bg_tasks') =>
            pc[t] \in Done /\ Head(ready) = <<"discard", t>>]_vars

\* C10 witness: one task is done and discarded while another, scheduled, still
\* awaits and is kept.
C10_Witness ==
    \E t, u \in Sup :
        /\ pc[t] \in Done /\ t \notin bg_tasks
        /\ pc[u] = "io" /\ u \in bg_tasks

\* A dump session is active: the periodic task is pending and was not told to stop.
Dumping == Pending(monitor) /\ ~monCancelReq

\* C11, as claimed: with every signal handled while the loop runs, the dumper
\* is Dumping after an odd number of signals and Idle after an even number.
C11_Alternates ==
    (dphase # "off" /\ handlerErrors = 0) => (Dumping <=> signals % 2 = 1)

\* C12: no pending periodic task is ever left behind by a newer one, and a
\* signal handled while a session is active starts no task: it tells the
\* active one to stop.
C12_SingleSession ==
    /\ [](orphans = 0)
    /\ [][(Dumping /\ signals' = signals + 1) =>
            monitor' = monitor /\ monCancelReq']_vars

\* C12 witness: the second signal was handled while the session of the first
\* was active.
C12_Witness == signals = 2 /\ monitor = "sleeping" /\ monCancelReq /\ dumps > 0

\* C13, as claimed: after two signals no session is active, the handler raised
\* nothing, and the periodic task did not end on a CancelledError.
C13_TwoSignalsClean ==
    signals = 2 =>
        /\ ~Dumping
        /\ handlerErrors = 0
        /\ monitor # "done_cancelled"

\* C19, as claimed: the explicit argument decides; the ambient configuration
\* only when debug is None.
C19_ExplicitWins ==
    instrumented # "unset" =>
        /\ debugArg = "true" => instrumented = "on"
        /\ debugArg = "false" => instrumented = "off"
        /\ debugArg = "none" => (instrumented = "on" <=> (debugging \/ loopDebug))

\* C19, amended: debug=True enables the instrumentation; debug=False leaves it
\* off unless the loop's own debug flag is on, and then it is enabled; with
\* debug None it is enabled when _debugging or the loop's debug flag is on.
C19_ExplicitOrLoopDebug ==
    instrumented # "unset" =>
        /\ debugArg = "true" => instrumented = "on"
        /\ debugArg = "false" => (instrumented = "on" <=> loopDebug)
        /\ debugArg = "none" => (instrumented = "on" <=> (debugging \/ loopDebug))

\* C19 witness: init(coro, debug=False) enabled the instrumentation.
C19_Witness == debugArg = "false" /\ instrumented = "on" /\ ~debugging

\* C17: once a call of run() has returned, and while nothing more is
\* registered, the registry is empty and no step calls an action or puts one
\* back, however many more calls of run() are made.
C17_RunAgainNoOp ==
    /\ []((drainReturned # {} /\ ~lateReg) => tasks = <<>>)
    /\ [][(drainReturned # {} /\ ~lateReg /\ kinds' = kinds) =>
            (executed' = executed /\ tasks' = <<>>)]_vars

\* C17 witness: three calls of run() returned, the later ones on a registry
\* the first had drained.
C17_Witness ==
    /\ Cardinality(drainReturned) = 3
    /\ ~lateReg
    /\ Len(executed) = MaxActions

\* C18, as claimed: the handle of a supervised task never completes with an
\* exception.
C18_HandleNeverRaises == \A t \in Sup : pc[t] # "done_exc"

\* C20, as claimed: on the main thread, the steps of the fatal path of a task
\* happen in order (log, drain, flag, stop, yield, hook), the flag is not
\* true while the task is still in its drain, and when init() is left no step
\* of a task that failed and was not cancelled has been skipped.
C20_FatalStepsInOrder ==
    mainThread =>
        /\ \A t \in Sup :
            /\ hooks[t] > 0 => t \in drainReturned
            /\ t \in drainReturned => (loop_stopped /\ LogEntry(t, 0) \in errlog)
            /\ pc[t] \in {"lockwait", "inaction"} =>
                   (LogEntry(t, 0) \in errlog /\ ~loop_stopped)
        /\ outcome # "none" =>
               \A t \in failed : ~cancelReq[t] /\ propagated = {} =>
                   (t \in drainReturned /\ hooks[t] = 1)

\* The step is a call of acquire(wait=w) made while the lock is held.
CallOnHeld(w) == ncalls' # ncalls /\ lastCall'.wait = w /\ held

\* C14: acquire(wait=False) on a held lock returns False in the step of the
\* call: the caller is not suspended, nothing is queued, and the lock, its
\* owner and its waiters are as before.
C14_RefusesHeld ==
    [][CallOnHeld(FALSE) =>
          /\ uret'[lastCall'.who] = "false"
          /\ upc'[lastCall'.who] = "idle"
          /\ UNCHANGED <<held, owners, lwaiters, lfut, lready, inner, wfut, timers,
                         mustCancel>>]_vars

\* C14 witness: acquire(wait=False) was refused while another user held the
\* lock and a third waited for it.
C14_Witness ==
    /\ lastVia = "refused" /\ ~lastCall.wait
    /\ uret[lastCall.who] = "false" /\ upc[lastCall.who] = "idle"
    /\ held /\ owners # {} /\ lastCall.who \notin owners
    /\ lwaiters # <<>>

\* C15: acquire(wait=False) ends with True or False and never with an
\* exception; True means the caller owns the lock, False leaves nothing of
\* the caller behind (no waiter, no inner task, no ownership); and a caller
\* suspended in wait_for always has its wake-up due: the timeout or the end
\* of the inner task.
C15_BooleanNoRaise ==
    \A u \in Users :
        /\ uret[u] # "raised" /\ lastVia # "raised"
        /\ uret[u] = "true" => (u \in owners /\ held)
        /\ upc[u] = "idle" =>
               (u \notin owners /\ u \notin Range(lwaiters) /\ inner[u] = "none")
        /\ upc[u] = "nbwait" =>
               (u \in timers \/ InQueue(<<"timeout", u>>) \/ InQueue(<<"wake", u>>))
        /\ upc[u] = "nbcancel" =>
               (InQueue(<<"inner", u>>) \/ InQueue(<<"wake", u>>))

\* C15 witness: the lock was free at the call, the bounded acquire timed out
\* behind another user, and acquire(wait=False) returned False.
C15_Witness ==
    /\ lastVia = "timeout" /\ ~lastCall.wait
    /\ uret[lastCall.who] = "false" /\ upc[lastCall.who] = "idle"

\* C16: at most one user owns the lock, and only while it is held; a call of
\* acquire() on a held lock suspends the caller as a waiter; a waiter returns
\* from acquire() only once the lock is free and is then its only owner; and
\* while the lock is free the first waiter's step is queued (no wake-up lost).
C16_BlocksUntilReleased ==
    /\ [](Cardinality(owners) <= 1 /\ (owners # {} => held))
    /\ []((~held /\ lwaiters # <<>>) => InQueue(StepOf(Head(lwaiters))))
    /\ [][CallOnHeld(TRUE) =>
            (upc'[lastCall'.who] = "bwait"
             /\ lwaiters' = Append(lwaiters, lastCall'.who))]_vars
    /\ [][\A u \in Users : (upc[u] = "bwait" /\ upc'[u] = "holding") =>
            (~held /\ owners = {} /\ owners' = {u} /\ uret'[u] = "true")]_vars

\* C16 witness: a user that waited in acquire() owns the lock, handed over
\* by a release.
C16_Witness ==
    /\ lastVia = "handoff"
    /\ \E u \in Users : owners = {u} /\ uret[u] = "true" /\ lwaiters # <<>>

\* The drainers inside `async with self._lock`, an action of theirs awaited.
InAction == {d \in Drainers : pc[d] = "inaction"}

\* C21: at most one drain is inside the lock, and the lock is held while it
\* is; a step that calls actions is a step of the one drainer that owns the
\* lock: no other drainer is in the middle of its drain, and a drainer that
\* waits for the lock calls nothing before the lock was released.
C21_DrainsSerialize ==
    /\ [](Cardinality(InAction) <= 1 /\ (InAction # {} => locked))
    /\ [][executed' # executed =>
            /\ InAction \subseteq {Head(ready)[2]}
            /\ (pc[Head(ready)[2]] = "lockwait" => ~locked)]_vars

\* C21 witness: one drainer awaits an action it called, with more to call,
\* while another waits for the lock.
C21_Witness ==
    /\ \E d \in InAction : \E e \in Drainers \ {d} : pc[e] = "lockwait"
    /\ locked
    /\ executed # <<>> /\ tasks # <<>>

\* C22: a drainer that waits for the lock or is inside it, a held lock, and
\* an action that was called all imply that SIGINT is ignored; and once
\* ignored it stays ignored.
C22_SigintIgnoredInDrain ==
    /\ [](\A d \in Drainers :
            pc[d] \in {"lockwait", "inaction"} => sigint = "ignored")
    /\ []((locked \/ executed # <<>>) => sigint = "ignored")
    /\ [][sigint = "ignored" => sigint' = "ignored"]_vars

\* C22 witness: a drain is awaiting its first action, with more to call.
C22_Witness ==
    /\ sigint = "ignored"
    /\ InAction # {} /\ locked
    /\ Len(executed) = 1 /\ tasks # <<>>

\* C23, as claimed: once every call of run() has returned and init() is left,
\* SIGINT has the disposition it had before.
C23_SigintRestored ==
    (outcome = "returned" /\ drainReturned # {} /\
     \A d \in Drainers : pc[d] \notin {"lockwait", "inaction"}) =>
        sigint = "default"

\* C24, as claimed: no call of run() waits at `async with self._lock` for the
\* lock held by the very drain that awaits it, a wait that only the end of
\* that drain could end.
C24_NoSelfWait ==
    \A d \in Drainers : ~(pc[d] = "reentered" /\ locked)

\* C25: at most one user owns the lock, and the lock is held exactly while one
\* does; a user becomes owner only of a lock nobody owned, and an
\* acquire(wait=False) that returns True leaves its caller the only owner; a
\* user that is out of acquire() (so after a False) has no future among the
\* waiters and no inner task; and a free lock with waiters has woken or
\* cancelled the first of them, whose step is pending: a release wakes the
\* next blocked waiter.
C25_SingleOwner ==
    /\ [](Cardinality(owners) <= 1 /\ (held <=> owners # {}))
    /\ [][\A u \in Users :
            /\ (u \notin owners /\ u \in owners') => (owners = {} /\ ~held)
            /\ (upc[u] \in {"nbwait", "nbcancel"} /\ uret'[u] = "true") =>
                    owners' = {u}]_vars
    /\ [](\A u \in Users :
            upc[u] \in {"idle", "holding"} =>
                /\ u \notin Range(lwaiters)
                /\ lfut[u] = "none" /\ inner[u] = "none")
    /\ []((~held /\ lwaiters # <<>>) =>
            /\ lfut[Head(lwaiters)] \in {"result", "cancelled"}
            /\ \/ InQueue(StepOf(Head(lwaiters)))
               \/ Head(lwaiters) \in mustCancel)
    /\ [][(held /\ ~held' /\ lwaiters # <<>> /\ lfut[Head(lwaiters)] = "pending")
            => lfut'[Head(lwaiters)] = "result"]_vars

\* C25 witness: the last acquire to return was a wait=False one that timed out
\* and returned False; its caller is out of the waiters; the lock was released
\* and the blocked waiter of the latest call is woken.
C25_Witness ==
    /\ lastVia = "timeout"
    /\ \E u \in Users : upc[u] = "idle" /\ uret[u] = "false"
    /\ ~held /\ lwaiters # <<>>
    /\ lastCall = [who |-> Head(lwaiters), wait |-> TRUE]
    /\ lfut[Head(lwaiters)] = "result"

====
